---------------------------- MODULE Spec2Model ----------------------------
(***************************************************************************)
(* Model of src/font.rs (silicon): a font manager with fallback support.   *)
(*                                                                         *)
(* The font programs (font_kit::font::Font), the system font source and    *)
(* the destination image are the environment of font.rs.  They are given   *)
(* here as small finite tables: a font is a name, and FontTable gives what *)
(* its metrics(), glyph_for_char(), advance(), raster_bounds() and         *)
(* rasterize_glyph() answer.  f32 values are integers here; the f32        *)
(* expressions of the source are evaluated exactly (CeilDiv, RoundDiv),    *)
(* which agrees with IEEE single precision on every value of the tables.   *)
(***************************************************************************)
EXTENDS Integers, Sequences, FiniteSets, TLC

(***************************************************************************)
(* Bounds of the model                                                     *)
(***************************************************************************)
\* longest font list given to FontCollection::new
MaxFonts == 3
\* longest font list given to FontCollection::new before drawing
MaxDrawFonts == 2
\* longest text given to layout, get_text_len and draw_text_mut
MaxLen == 2
\* dimensions of the destination image
ImgW == 10
ImgH == 8

(***************************************************************************)
(* Program constants                                                       *)
(***************************************************************************)
\* size of ImageFont::default()
DefaultSize == 26
\* full coverage of an A8 canvas byte (val = byte / 255.0)
MaxCoverage == 255
\* 1 / std::f32::EPSILON = 2^23
EpsilonInv == 8388608

REGULAR == "REGULAR"
ITALIC == "ITALIC"
BOLD == "BOLD"
BOLDITALIC == "BOLDITALIC"
FontStyle == {REGULAR, ITALIC, BOLD, BOLDITALIC}

\* font_kit::properties::Weight
WeightLIGHT == "LIGHT"
WeightNORMAL == "NORMAL"
WeightBOLD == "BOLD"

(***************************************************************************)
(* Results: a call returns a value or panics (unwrap on None/Err, index    *)
(* out of bounds).                                                         *)
(***************************************************************************)
Panic == [panic |-> TRUE, val |-> "panic"]
Returned(v) == [panic |-> FALSE, val |-> v]
None == [some |-> FALSE, val |-> "none"]
Some(v) == [some |-> TRUE, val |-> v]
Ok(v) == [ok |-> TRUE, val |-> v]
Err(e) == [ok |-> FALSE, val |-> e]

(***************************************************************************)
(* Arithmetic of the f32 expressions                                       *)
(***************************************************************************)
\* (n / d).ceil() for d > 0
CeilDiv(n, d) == -((-n) \div d)
\* (n / d).round() for d > 0: half away from zero
RoundDiv(n, d) == IF n >= 0 THEN (2 * n + d) \div (2 * d) ELSE -((2 * (-n) + d) \div (2 * d))
\* `as u32` of a float: saturating at 0
AsU32(v) == IF v < 0 THEN 0 ELSE v

(***************************************************************************)
(* The environment: font programs                                          *)
(***************************************************************************)
Chars == {"a", " ", "|", "z"}

\* what a font program answers: metrics, properties and character map
\* (glyph id 0: the font has no glyph for the character)
FontTable ==
  [ HackR  |-> [units_per_em |-> 1000, ascent |-> 950, descent |-> -250, advance |-> 550,
                style |-> "Normal", weight |-> WeightNORMAL,
                cmap |-> [c \in Chars |-> CASE c = "a" -> 1 [] c = " " -> 2 [] OTHER -> 0]],
    HackI  |-> [units_per_em |-> 1000, ascent |-> 950, descent |-> -250, advance |-> 550,
                style |-> "Italic", weight |-> WeightNORMAL,
                cmap |-> [c \in Chars |-> CASE c = "a" -> 1 [] c = " " -> 2 [] c = "|" -> 3 [] OTHER -> 0]],
    HackB  |-> [units_per_em |-> 1000, ascent |-> 950, descent |-> -250, advance |-> 550,
                style |-> "Normal", weight |-> WeightBOLD,
                cmap |-> [c \in Chars |-> CASE c = "a" -> 4 [] c = " " -> 2 [] OTHER -> 0]],
    HackBI |-> [units_per_em |-> 1000, ascent |-> 950, descent |-> -250, advance |-> 550,
                style |-> "Italic", weight |-> WeightBOLD,
                cmap |-> [c \in Chars |-> CASE c = " " -> 2 [] OTHER -> 0]],
    FiraL  |-> [units_per_em |-> 1000, ascent |-> 1100, descent |-> -200, advance |-> 600,
                style |-> "Normal", weight |-> WeightLIGHT,
                cmap |-> [c \in Chars |-> CASE c = "a" -> 5 [] OTHER -> 0]],
    FiraR  |-> [units_per_em |-> 1000, ascent |-> 1100, descent |-> -200, advance |-> 600,
                style |-> "Normal", weight |-> WeightNORMAL,
                cmap |-> [c \in Chars |-> CASE c = "a" -> 5 [] c = " " -> 6 [] c = "|" -> 7 [] OTHER -> 0]],
    FiraB  |-> [units_per_em |-> 1000, ascent |-> 1100, descent |-> -200, advance |-> 600,
                style |-> "Normal", weight |-> WeightBOLD,
                cmap |-> [c \in Chars |-> CASE c = "a" -> 5 [] c = "|" -> 7 [] OTHER -> 0]],
    FiraO  |-> [units_per_em |-> 1000, ascent |-> 1100, descent |-> -200, advance |-> 600,
                style |-> "Oblique", weight |-> WeightNORMAL,
                cmap |-> [c \in Chars |-> CASE c = "a" -> 5 [] OTHER -> 0]],
    ImpactB |-> [units_per_em |-> 1000, ascent |-> 800, descent |-> -200, advance |-> 700,
                style |-> "Normal", weight |-> WeightBOLD,
                cmap |-> [c \in Chars |-> CASE c = "a" -> 8 [] OTHER -> 0]],
    BrokenR |-> [units_per_em |-> 1000, ascent |-> 800, descent |-> -200, advance |-> 500,
                style |-> "Normal", weight |-> WeightNORMAL,
                cmap |-> [c \in Chars |-> CASE c = "a" -> 9 [] OTHER -> 0]] ]

\* Font::glyph_for_char
Font_glyph_for_char(font, c) ==
  IF FontTable[font].cmap[c] = 0 THEN None ELSE Some(FontTable[font].cmap[c])

\* Font::metrics
Font_metrics(font) ==
  [units_per_em |-> FontTable[font].units_per_em,
   ascent |-> FontTable[font].ascent,
   descent |-> FontTable[font].descent]

\* Font::advance(id).x, in font units
Font_advance(font, id) == FontTable[font].advance

\* the raster box of a glyph at size 10: origin (x, y), size (w, h).
\* Glyph 2 and 6 (space) have an empty box; glyph 3 has a box of zero height
\* and glyph 7 a box of zero width; glyph 4 starts left of the cursor.
BaseBox(id) ==
  CASE id = 1 -> [x |-> 1, y |-> 5, w |-> 2, h |-> 2]
    [] id = 2 -> [x |-> 0, y |-> 0, w |-> 0, h |-> 0]
    [] id = 3 -> [x |-> 1, y |-> 5, w |-> 2, h |-> 0]
    [] id = 4 -> [x |-> -1, y |-> 5, w |-> 3, h |-> 2]
    [] id = 5 -> [x |-> 0, y |-> 6, w |-> 2, h |-> 2]
    [] id = 6 -> [x |-> 0, y |-> 0, w |-> 0, h |-> 0]
    [] id = 7 -> [x |-> 1, y |-> 6, w |-> 0, h |-> 2]
    [] OTHER -> [x |-> 0, y |-> 5, w |-> 1, h |-> 1]

\* Font::raster_bounds(id, size, identity, zero, None, GrayscaleAa)
Font_raster_bounds(font, id, size) ==
  LET b == BaseBox(id) IN
  [x |-> (b.x * size) \div 10, y |-> (b.y * size) \div 10,
   w |-> (b.w * size) \div 10, h |-> (b.h * size) \div 10]

\* Font::rasterize_glyph: the coverage byte it leaves in canvas row y, column x
Font_rasterize_glyph(font, id, size, x, y) ==
  CASE (x + 2 * y + id) % 3 = 0 -> MaxCoverage
    [] (x + 2 * y + id) % 3 = 1 -> 128
    [] OTHER -> 0

(***************************************************************************)
(* The environment: the system font source                                 *)
(***************************************************************************)
\* SystemSource::select_family_by_name: the handles of a family, in order;
\* a handle names a font and says whether Handle::load succeeds
SystemSource_select_family_by_name(name) ==
  CASE name = "Fira" ->
         Ok(<< [font |-> "FiraL", loads |-> TRUE], [font |-> "FiraR", loads |-> TRUE],
               [font |-> "FiraB", loads |-> TRUE], [font |-> "FiraO", loads |-> TRUE] >>)
    [] name = "Impact" -> Ok(<< [font |-> "ImpactB", loads |-> TRUE] >>)
    [] name = "Broken" ->
         Ok(<< [font |-> "BrokenR", loads |-> TRUE], [font |-> "BrokenI", loads |-> FALSE] >>)
    [] OTHER -> Err("FamilyNotFound")

(***************************************************************************)
(* ImageFont                                                               *)
(***************************************************************************)
\* HashMap::new and HashMap::insert
EmptyMap == [s \in {} |-> "none"]
Insert(m, k, v) == [s \in (DOMAIN m) \cup {k} |-> IF s = k THEN v ELSE m[s]]

\* impl Default for ImageFont
ImageFont_default ==
  [fonts |-> Insert(Insert(Insert(Insert(EmptyMap, REGULAR, "HackR"), ITALIC, "HackI"),
                           BOLD, "HackB"), BOLDITALIC, "HackBI"),
   size |-> DefaultSize]

\* the body of `for handle in handles` of ImageFont::new
InsertByProperties(fonts, font) ==
  LET p == FontTable[font] IN
  CASE p.style = "Normal" /\ p.weight = WeightNORMAL -> Insert(fonts, REGULAR, font)
    [] p.style = "Normal" /\ p.weight = WeightBOLD -> Insert(fonts, BOLD, font)
    [] p.style = "Italic" /\ p.weight = WeightNORMAL -> Insert(fonts, ITALIC, font)
    [] p.style = "Italic" /\ p.weight = WeightBOLD -> Insert(fonts, BOLDITALIC, font)
    [] OTHER -> fonts

RECURSIVE LoadHandles(_, _, _)
\* the loop of ImageFont::new from handle i on: handle.load()? returns the error
LoadHandles(handles, i, fonts) ==
  IF i > Len(handles) THEN Ok(fonts)
  ELSE IF ~handles[i].loads THEN Err("FontLoadingError")
  ELSE LoadHandles(handles, i + 1, InsertByProperties(fonts, handles[i].font))

\* ImageFont::new
ImageFont_new(name, size) ==
  IF name = "Hack" THEN Ok([ImageFont_default EXCEPT !.size = size])
  ELSE LET family == SystemSource_select_family_by_name(name) IN
       IF ~family.ok THEN Err(family.val)
       ELSE LET loaded == LoadHandles(family.val, 1, EmptyMap) IN
            IF ~loaded.ok THEN Err(loaded.val)
            ELSE Ok([fonts |-> loaded.val, size |-> size])

\* ImageFont::get_by_style
get_by_style(imfont, style) ==
  IF style \in DOMAIN imfont.fonts THEN Returned(imfont.fonts[style])
  ELSE IF REGULAR \in DOMAIN imfont.fonts THEN Returned(imfont.fonts[REGULAR])
  ELSE Panic

\* ImageFont::get_regular
get_regular(imfont) ==
  IF REGULAR \in DOMAIN imfont.fonts THEN Returned(imfont.fonts[REGULAR]) ELSE Panic

\* ImageFont::get_font_height
ImageFont_get_font_height(imfont) ==
  LET font == get_regular(imfont) IN
  IF font.panic THEN Panic
  ELSE LET metrics == Font_metrics(font.val) IN
       Returned(AsU32(CeilDiv((metrics.ascent - metrics.descent) * imfont.size,
                              metrics.units_per_em)))

(***************************************************************************)
(* FontCollection                                                          *)
(***************************************************************************)
RECURSIVE PushLoaded(_, _, _)
\* the loop of FontCollection::new from entry i on
PushLoaded(font_list, i, fonts) ==
  IF i > Len(font_list) THEN fonts
  ELSE LET r == ImageFont_new(font_list[i][1], font_list[i][2]) IN
       IF r.ok THEN PushLoaded(font_list, i + 1, Append(fonts, r.val))
       ELSE PushLoaded(font_list, i + 1, fonts)

\* FontCollection::new, had it returned the error of an entry with `?`
FontCollection_new_strict(font_list) ==
  IF \E i \in 1 .. Len(font_list) : ~ImageFont_new(font_list[i][1], font_list[i][2]).ok
  THEN Err("FontError")
  ELSE Ok(PushLoaded(font_list, 1, <<>>))

\* FontCollection::new
FontCollection_new(font_list) == Ok(PushLoaded(font_list, 1, <<>>))

RECURSIVE GlyphFrom(_, _, _, _)
\* the loop of FontCollection::glyph_for_char from chain entry i on
GlyphFrom(chain, i, c, style) ==
  IF i > Len(chain) THEN Returned(None)
  ELSE LET result == get_by_style(chain[i], style) IN
       IF result.panic THEN Panic
       ELSE LET id == Font_glyph_for_char(result.val, c) IN
            IF id.some THEN Returned(Some([id |-> id.val, imfont |-> i, font |-> result.val]))
            ELSE GlyphFrom(chain, i + 1, c, style)

RECURSIVE GlyphFromLast(_, _, _, _)
\* the search of glyph_for_char, had it walked the chain from its last entry
GlyphFromLast(chain, i, c, style) ==
  IF i < 1 THEN Returned(None)
  ELSE LET result == get_by_style(chain[i], style) IN
       IF result.panic THEN Panic
       ELSE LET id == Font_glyph_for_char(result.val, c) IN
            IF id.some THEN Returned(Some([id |-> id.val, imfont |-> i, font |-> result.val]))
            ELSE GlyphFromLast(chain, i - 1, c, style)

glyph_for_char_last(chain, c, style) == GlyphFromLast(chain, Len(chain), c, style)

\* glyph_for_char, had it answered an unresolved character with the missing-glyph
\* glyph (id 0) of the first FontSet
glyph_for_char_notdef(chain, c, style) ==
  LET r == GlyphFrom(chain, 1, c, style) IN
  IF r.panic \/ r.val.some \/ Len(chain) = 0 THEN r
  ELSE Returned(Some([id |-> 0, imfont |-> 1, font |-> get_by_style(chain[1], style).val]))

\* FontCollection::glyph_for_char; the ImageFont is returned as its index
glyph_for_char(chain, c, style) == GlyphFrom(chain, 1, c, style)

RECURSIVE MaxHeightFrom(_, _, _)
\* .map(|font| font.get_font_height()).max() from chain entry i on
MaxHeightFrom(chain, i, acc) ==
  IF i > Len(chain) THEN Returned(acc)
  ELSE LET h == ImageFont_get_font_height(chain[i]) IN
       IF h.panic THEN Panic
       ELSE MaxHeightFrom(chain, i + 1, IF h.val >= acc THEN h.val ELSE acc)

\* get_font_height, had it taken the height of the first FontSet
get_font_height_first(chain) ==
  IF Len(chain) = 0 THEN Panic ELSE ImageFont_get_font_height(chain[1])

\* FontCollection::get_font_height
get_font_height(chain) ==
  LET m == MaxHeightFrom(chain, 1, 0) IN
  IF m.panic THEN Panic
  ELSE IF Len(chain) = 0 THEN Panic
  ELSE m

\* get_glyph_width, had it left out .ceil()
get_glyph_width_trunc(font, id, size) ==
  AsU32((Font_advance(font, id) * size) \div Font_metrics(font).units_per_em)

\* FontCollection::get_glyph_width
get_glyph_width(font, id, size) ==
  LET metrics == Font_metrics(font)
      advance == Font_advance(font, id)
  IN AsU32(CeilDiv(advance * size, metrics.units_per_em))

\* the closure of layout, had it anchored a glyph to the height of its own FontSet
PositionGlyph_own(chain, g, delta_x, height) ==
  LET raster_rect == Font_raster_bounds(g.font, g.id, chain[g.imfont].size) IN
  [id |-> g.id, font |-> g.font, size |-> chain[g.imfont].size,
   raster_rect |-> raster_rect,
   position |-> [x |-> delta_x + raster_rect.x,
                 y |-> ImageFont_get_font_height(chain[g.imfont]).val
                       - raster_rect.h - raster_rect.y]]

\* the closure of layout's filter_map, for a resolved glyph
PositionGlyph(chain, g, delta_x, height) ==
  LET raster_rect == Font_raster_bounds(g.font, g.id, chain[g.imfont].size) IN
  [id |-> g.id, font |-> g.font, size |-> chain[g.imfont].size,
   raster_rect |-> raster_rect,
   position |-> [x |-> delta_x + raster_rect.x,
                 y |-> height - raster_rect.h - raster_rect.y]]

\* what layout adds to delta_x for a resolved glyph, once its position is computed
Advance(chain, g, delta_x) == delta_x + get_glyph_width(g.font, g.id, chain[g.imfont].size)

RECURSIVE LayoutFrom(_, _, _, _, _, _, _)
\* text.chars().filter_map(..).collect() from character i on
LayoutFrom(chain, text, style, i, delta_x, height, glyphs) ==
  IF i > Len(text) THEN Returned([glyphs |-> glyphs, width |-> delta_x])
  ELSE LET r == glyph_for_char(chain, text[i], style) IN
       IF r.panic THEN Panic
       ELSE IF ~r.val.some
            THEN LayoutFrom(chain, text, style, i + 1, delta_x, height, glyphs)
            ELSE LayoutFrom(chain, text, style, i + 1,
                            Advance(chain, r.val.val, delta_x), height,
                            Append(glyphs, PositionGlyph(chain, r.val.val, delta_x, height)))

\* the first value of delta_x
InitialDeltaX == 0

\* the height layout anchors the glyphs to
LayoutHeight(chain) == get_font_height(chain)

\* layout, had it taken the width from the last glyph: glyphs.last().unwrap()
layout_last(chain, text, style) ==
  LET height == LayoutHeight(chain) IN
  IF height.panic THEN Panic
  ELSE LET r == LayoutFrom(chain, text, style, 1, InitialDeltaX, height.val, <<>>) IN
       IF ~r.panic /\ r.val.glyphs = <<>> THEN Panic ELSE r

\* FontCollection::layout
layout(chain, text, style) ==
  LET height == LayoutHeight(chain) IN
  IF height.panic THEN Panic
  ELSE LayoutFrom(chain, text, style, 1, InitialDeltaX, height.val, <<>>)

\* get_text_len, had it laid the text out in BOLD
get_text_len_bold(chain, text) ==
  LET r == layout(chain, text, BOLD) IN
  IF r.panic THEN Panic ELSE Returned(r.val.width)

\* FontCollection::get_text_len
get_text_len(chain, text) ==
  LET r == layout(chain, text, REGULAR) IN
  IF r.panic THEN Panic ELSE Returned(r.val.width)

(***************************************************************************)
(* Drawing                                                                 *)
(***************************************************************************)
\* the coordinates (x, y) of the image; an image is its rows, top row first
Pixels == (0 .. ImgW - 1) \X (0 .. ImgH - 1)
\* image.get_pixel(x, y) and image.put_pixel(x, y, v), for p = (x, y) in the image
get_pixel(img, p) == img[p[2] + 1][p[1] + 1]
put_pixel(img, p, v) == [img EXCEPT ![p[2] + 1][p[1] + 1] = v]

\* v <= std::f32::EPSILON for v = byte / 255.0
Negligible(byte) == byte * EpsilonInv <= MaxCoverage

\* imageproc::pixelops::weighted_sum(pixel, color, 1.0 - v, v) of a Luma<u8> pixel
weighted_sum(pixel, color, byte) ==
  (pixel * (MaxCoverage - byte) + color * byte) \div MaxCoverage

\* the closure draw_text_mut gives to PositionedGlyph::draw.  (px + x as i32) as u32
\* of a negative sum is at least 2^31, outside every image: get_pixel panics.
Plot(img, px, py, byte, color, x, y) ==
  IF Negligible(byte) THEN [panic |-> FALSE, image |-> img]
  ELSE IF <<px + x, py + y>> \notin Pixels THEN [panic |-> TRUE, image |-> img]
  ELSE LET pixel == get_pixel(img, <<px + x, py + y>>) IN
       [panic |-> FALSE,
        image |-> put_pixel(img, <<px + x, py + y>>, weighted_sum(pixel, color, byte))]

\* PositionedGlyph::draw, had it rasterized every glyph
Rasterizes_always(raster_rect) == TRUE

\* whether PositionedGlyph::draw calls rasterize_glyph
Rasterizes(raster_rect) == <<raster_rect.w, raster_rect.h>> # <<0, 0>>

\* the canvas row the k-th call of the closure reads: rows are walked in reverse
PlotRow(glyph, k) == glyph.raster_rect.h - 1 - ((k - 1) \div glyph.raster_rect.w)
PlotCol(glyph, k) == (k - 1) % glyph.raster_rect.w

\* the canvas byte at (x, y): zero when rasterize_glyph was not called
CanvasByte(glyph, x, y) ==
  IF Rasterizes(glyph.raster_rect)
  THEN Font_rasterize_glyph(glyph.font, glyph.id, glyph.size, x, y)
  ELSE 0

RECURSIVE PlotFrom(_, _, _, _, _, _, _)
\* the two loops of PositionedGlyph::draw from the k-th call of the closure on
PlotFrom(glyph, offset, k, img, color, x, y) ==
  IF k > glyph.raster_rect.w * glyph.raster_rect.h THEN [panic |-> FALSE, image |-> img]
  ELSE LET cy == PlotRow(glyph, k)
           cx == PlotCol(glyph, k)
           r == Plot(img, glyph.position.x + cx, glyph.position.y + cy + offset,
                     CanvasByte(glyph, cx, cy), color, x, y)
       IN IF r.panic THEN r ELSE PlotFrom(glyph, offset, k + 1, r.image, color, x, y)

\* PositionedGlyph::draw with the closure of draw_text_mut
PositionedGlyph_draw(glyph, offset, img, color, x, y) ==
  LET r == PlotFrom(glyph, offset, 1, img, color, x, y) IN
  [panic |-> r.panic, image |-> r.image, rasterized |-> Rasterizes(glyph.raster_rect)]

RECURSIVE DrawFrom(_, _, _, _, _, _, _, _)
\* `for glyph in glyphs` of draw_text_mut from glyph i on
DrawFrom(glyphs, i, offset, img, rast, color, x, y) ==
  IF i > Len(glyphs) THEN [panic |-> FALSE, image |-> img, rasterized |-> rast]
  ELSE LET r == PositionedGlyph_draw(glyphs[i], offset, img, color, x, y) IN
       IF r.panic THEN [panic |-> TRUE, image |-> r.image, rasterized |-> Append(rast, r.rasterized)]
       ELSE DrawFrom(glyphs, i + 1, offset, r.image, Append(rast, r.rasterized), color, x, y)

\* the baseline offset, had it come from the last FontSet of the chain
BaselineOffset_last(chain) ==
  IF Len(chain) = 0 THEN Panic
  ELSE LET font == get_regular(chain[Len(chain)]) IN
       IF font.panic THEN Panic
       ELSE LET metrics == Font_metrics(font.val) IN
            Returned(RoundDiv(metrics.descent * chain[Len(chain)].size, metrics.units_per_em))

\* the baseline offset of draw_text_mut
BaselineOffset(chain) ==
  IF Len(chain) = 0 THEN Panic
  ELSE LET font == get_regular(chain[1]) IN
       IF font.panic THEN Panic
       ELSE LET metrics == Font_metrics(font.val) IN
            Returned(RoundDiv(metrics.descent * chain[1].size, metrics.units_per_em))

\* FontCollection::draw_text_mut: the width returned, the image left and, for each
\* glyph drawn, whether rasterize_glyph was called
draw_text_mut(chain, img, color, x, y, style, text) ==
  LET offset == BaselineOffset(chain) IN
  IF offset.panic THEN [panic |-> TRUE, val |-> "panic", image |-> img, rasterized |-> <<>>]
  ELSE LET l == layout(chain, text, style) IN
       IF l.panic THEN [panic |-> TRUE, val |-> "panic", image |-> img, rasterized |-> <<>>]
       ELSE LET d == DrawFrom(l.val.glyphs, 1, offset.val, img, <<>>, color, x, y) IN
            [panic |-> d.panic, val |-> IF d.panic THEN "panic" ELSE l.val.width,
             image |-> d.image, rasterized |-> d.rasterized]

(***************************************************************************)
(* The state machine: a caller builds a FontCollection and calls it        *)
(***************************************************************************)
VARIABLES
  pc,          \* "start", "ready", "called" or "panicked"
  font_list,   \* the list FontCollection::new was given
  chain,       \* FontCollection.0
  image,       \* the caller's image
  pre_image,   \* the image as the last call found it
  rasterized,  \* per glyph of the last draw_text_mut: was rasterize_glyph called
  call,        \* the last call and its arguments
  ret          \* what the last call returned

vars == <<pc, font_list, chain, image, pre_image, rasterized, call, ret>>

Entries == {<<"Hack", 10>>, <<"Fira", 10>>, <<"Fira", 20>>, <<"Impact", 10>>,
            <<"Broken", 10>>, <<"Nope", 10>>}
\* the font lists of at most n entries, none of them repeated
ListsUpTo(n) ==
  UNION {{fl \in [1 .. k -> Entries] : \A i, j \in 1 .. k : i # j => fl[i] # fl[j]} :
           k \in 0 .. n}
FontLists == ListsUpTo(MaxFonts)
DrawFontLists == ListsUpTo(MaxDrawFonts)
Texts == UNION {[1 .. n -> Chars] : n \in 0 .. MaxLen}
BlankImage == [y \in 1 .. ImgH |-> [x \in 1 .. ImgW |-> 0]]
UsedImage == [y \in 1 .. ImgH |-> [x \in 1 .. ImgW |-> IF (x + y) % 3 = 0 THEN 40 ELSE 0]]
StartImages == {BlankImage, UsedImage}
Colors == {MaxCoverage}
Positions == {<<0, 0>>, <<1, 2>>}

NoCall == [op |-> "none", c |-> "", style |-> "", text |-> <<>>, x |-> 0, y |-> 0, color |-> 0]

Init ==
  /\ pc = "start"
  /\ font_list = <<>>
  /\ chain = <<>>
  /\ image \in StartImages
  /\ pre_image = image
  /\ rasterized = <<>>
  /\ call = NoCall
  /\ ret = Returned("none")

AfterCall(r) == IF r.panic THEN "panicked" ELSE "called"

\* let font = FontCollection::new(&font_list), for a font list of `lists`
NewFrom(lists) ==
  /\ pc = "start"
  /\ \E fl \in lists :
       \E r \in {FontCollection_new(fl)} :
       /\ font_list' = fl
       /\ chain' = IF r.ok THEN r.val ELSE <<>>
       /\ pc' = IF r.ok THEN "called" ELSE "failed"
       /\ call' = [NoCall EXCEPT !.op = "new"]
       /\ ret' = [panic |-> FALSE, val |-> IF r.ok THEN "Ok" ELSE "Err"]
  /\ UNCHANGED <<image, pre_image, rasterized>>

New == NewFrom(FontLists)
NewDraw == NewFrom(DrawFontLists)

\* font.glyph_for_char(c, style)
GlyphForChar ==
  /\ pc = "ready"
  /\ \E c \in Chars, style \in FontStyle :
       /\ call' = [NoCall EXCEPT !.op = "glyph_for_char", !.c = c, !.style = style]
       /\ ret' = glyph_for_char(chain, c, style)
       /\ pc' = AfterCall(ret')
  /\ UNCHANGED <<font_list, chain, image, pre_image, rasterized>>

\* font.get_font_height()
GetFontHeight ==
  /\ pc = "ready"
  /\ call' = [NoCall EXCEPT !.op = "get_font_height"]
  /\ ret' = get_font_height(chain)
  /\ pc' = AfterCall(ret')
  /\ UNCHANGED <<font_list, chain, image, pre_image, rasterized>>

\* font.layout(text, style)
Layout ==
  /\ pc = "ready"
  /\ \E text \in Texts, style \in FontStyle :
       /\ call' = [NoCall EXCEPT !.op = "layout", !.text = text, !.style = style]
       /\ ret' = layout(chain, text, style)
       /\ pc' = AfterCall(ret')
  /\ UNCHANGED <<font_list, chain, image, pre_image, rasterized>>

\* font.get_text_len(text)
GetTextLen ==
  /\ pc = "ready"
  /\ \E text \in Texts :
       /\ call' = [NoCall EXCEPT !.op = "get_text_len", !.text = text]
       /\ ret' = get_text_len(chain, text)
       /\ pc' = AfterCall(ret')
  /\ UNCHANGED <<font_list, chain, image, pre_image, rasterized>>

\* font.draw_text_mut(&mut image, color, x, y, style, text)
DrawTextMut ==
  /\ pc = "ready"
  /\ \E color \in Colors, pos \in Positions, style \in FontStyle, text \in Texts :
       \E r \in {draw_text_mut(chain, image, color, pos[1], pos[2], style, text)} :
       /\ call' = [op |-> "draw_text_mut", c |-> "", style |-> style, text |-> text,
                   x |-> pos[1], y |-> pos[2], color |-> color]
       /\ pre_image' = image
       /\ image' = r.image
       /\ rasterized' = r.rasterized
       /\ ret' = [panic |-> r.panic, val |-> r.val]
       /\ pc' = AfterCall(r)
  /\ UNCHANGED <<font_list, chain>>

\* the caller takes the result and goes on, with an image of its own
Return ==
  /\ pc = "called"
  /\ pc' = "ready"
  /\ image' \in StartImages
  /\ pre_image' = image'
  /\ rasterized' = <<>>
  /\ call' = NoCall
  /\ ret' = Returned("none")
  /\ UNCHANGED <<font_list, chain>>

\* construction and the queries
Next == New \/ GlyphForChar \/ GetFontHeight \/ Layout \/ GetTextLen \/ Return
Spec == Init /\ [][Next]_vars

\* construction and drawing
NextDraw == NewDraw \/ DrawTextMut \/ Return
SpecDraw == Init /\ [][NextDraw]_vars

(***************************************************************************)
(* What the fonts of a chain are, read off the tables                      *)
(***************************************************************************)
Min(S) == CHOOSE m \in S : \A n \in S : m <= n
HasRegular(imfont) == REGULAR \in DOMAIN imfont.fonts
AllRegular == \A i \in 1 .. Len(chain) : HasRegular(chain[i])
\* the FontSet has a font for the style, or a Regular font to stand in for it
HasSelected(imfont, style) == style \in DOMAIN imfont.fonts \/ HasRegular(imfont)
SelectedFont(imfont, style) ==
  IF style \in DOMAIN imfont.fonts THEN imfont.fonts[style] ELSE imfont.fonts[REGULAR]
\* the chain entries whose selected-style font has a glyph for c
Hits(c, style) ==
  {i \in 1 .. Len(chain) :
     HasSelected(chain[i], style) /\ FontTable[SelectedFont(chain[i], style)].cmap[c] # 0}
\* the chain entries with no font to select for the style
Unselectable(style) == {i \in 1 .. Len(chain) : ~HasSelected(chain[i], style)}
Resolvable(c, style) == Hits(c, style) # {}

Loads(entry) == ImageFont_new(entry[1], entry[2]).ok
LoadedIndexes(fl) == {i \in 1 .. Len(fl) : Loads(fl[i])}
\* the k-th entry of fl that loads
KthLoaded(fl, k) ==
  CHOOSE i \in LoadedIndexes(fl) : Cardinality({j \in LoadedIndexes(fl) : j <= i}) = k

C2_NewKeepsLoadedEntries ==
  call.op = "new" =>
    /\ ret.val = "Ok"
    /\ pc = "called"
    /\ Len(chain) = Cardinality(LoadedIndexes(font_list))
    /\ \A k \in 1 .. Len(chain) :
         LET e == font_list[KthLoaded(font_list, k)] IN
         chain[k] = ImageFont_new(e[1], e[2]).val

\* an entry that fails, between two that load
C2_Witness ==
  /\ call.op = "new"
  /\ Len(font_list) = 3
  /\ Loads(font_list[1]) /\ ~Loads(font_list[2]) /\ Loads(font_list[3])
  /\ font_list[1] # font_list[3]
  /\ Len(chain) = 2

(***************************************************************************)
(* C7: the line height of a chain is the maximum of the heights of its     *)
(* FontSets, each ceil((ascent - descent) / units_per_em * size) of its    *)
(* Regular font; on an empty chain get_font_height panics.                 *)
(***************************************************************************)
\* the least n with n >= (ascent - descent) / units_per_em * size
MemberHeight(imfont) ==
  LET f == FontTable[imfont.fonts[REGULAR]]
      scaled == (f.ascent - f.descent) * imfont.size
  IN CHOOSE n \in 0 .. (scaled \div f.units_per_em) + 1 :
       n * f.units_per_em >= scaled /\ (n - 1) * f.units_per_em < scaled
MemberHeights == {MemberHeight(chain[i]) : i \in 1 .. Len(chain)}

C7_WitnessEmpty == call.op = "get_font_height" /\ Len(chain) = 0 /\ ret.panic

(***************************************************************************)
(* What a layout is, read off the tables                                   *)
(***************************************************************************)
\* the positions of the characters of text that some FontSet resolves
ResolvableIdx(text, style) == {i \in 1 .. Len(text) : Resolvable(text[i], style)}
KthResolvable(text, style, k) ==
  CHOOSE i \in ResolvableIdx(text, style) :
    Cardinality({j \in ResolvableIdx(text, style) : j <= i}) = k
ResolvableOnly(text, style) ==
  [k \in 1 .. Cardinality(ResolvableIdx(text, style)) |-> text[KthResolvable(text, style, k)]]
\* the FontSet and font that resolve c
Resolver(c, style) == Min(Hits(c, style))
ResolverFont(c, style) == SelectedFont(chain[Resolver(c, style)], style)
\* the least n with n >= advance / units_per_em * size, for the font and the
\* FontSet size that resolve c
CharWidth(c, style) ==
  LET f == FontTable[ResolverFont(c, style)]
      scaled == f.advance * chain[Resolver(c, style)].size
  IN CHOOSE n \in 0 .. (scaled \div f.units_per_em) + 1 :
       n * f.units_per_em >= scaled /\ (n - 1) * f.units_per_em < scaled
RECURSIVE SumWidths(_, _, _)
\* the sum of the widths of the resolvable characters among the first n of text
SumWidths(text, style, n) ==
  IF n = 0 THEN 0
  ELSE SumWidths(text, style, n - 1)
       + (IF Resolvable(text[n], style) THEN CharWidth(text[n], style) ELSE 0)
ChainHeight == CHOOSE h \in MemberHeights : \A g \in MemberHeights : g <= h
LaysOut == Len(chain) > 0 /\ AllRegular

(***************************************************************************)
(* C3 as stated: for any chain, a text of characters no FontSet resolves   *)
(* lays out to no glyph and width 0.  It fails on the empty chain, where   *)
(* layout panics in get_font_height before it looks at a character.        *)
(***************************************************************************)
C3_AnyChain ==
  (call.op = "layout" /\ ResolvableIdx(call.text, call.style) = {}) =>
    (~ret.panic /\ ret.val = [glyphs |-> <<>>, width |-> 0])

(***************************************************************************)
(* C3, amended: on a chain that is not empty and whose FontSets all have a *)
(* Regular font, a character no FontSet resolves adds no glyph and leaves  *)
(* the cursor where it was, and layout goes on with the next character: a  *)
(* text of such characters alone gives no glyph and width 0.  On any other *)
(* chain layout panics.                                                    *)
(***************************************************************************)
C3_UnresolvedDropped ==
  call.op = "layout" =>
    IF ~LaysOut THEN ret.panic
    ELSE /\ ~ret.panic
         /\ Len(ret.val.glyphs) = Cardinality(ResolvableIdx(call.text, call.style))
         /\ ret = layout(chain, ResolvableOnly(call.text, call.style), call.style)
         /\ ResolvableIdx(call.text, call.style) = {} =>
              ret.val = [glyphs |-> <<>>, width |-> 0]

\* an unresolvable character, then one that resolves
C3_Witness ==
  /\ call.op = "layout"
  /\ ~ret.panic
  /\ Len(call.text) = 2
  /\ ~Resolvable(call.text[1], call.style)
  /\ Resolvable(call.text[2], call.style)
  /\ Len(ret.val.glyphs) = 1
  /\ ret.val.width > 0

\* a text of unresolvable characters alone
C3_WitnessNone ==
  /\ call.op = "layout"
  /\ ~ret.panic
  /\ Len(call.text) = 2
  /\ ResolvableIdx(call.text, call.style) = {}
  /\ ret.val = [glyphs |-> <<>>, width |-> 0]

(***************************************************************************)
(* C8: get_text_len(s) is the width of layout(s, REGULAR), and the call    *)
(* leaves the chain and the image as they were.                            *)
(***************************************************************************)
WidthOf(r) == IF r.panic THEN Panic ELSE Returned(r.val.width)

C8_TextLenIsRegularLayout ==
  [][call'.op = "get_text_len" =>
       /\ ret' = WidthOf(layout(chain, call'.text, REGULAR))
       /\ chain' = chain
       /\ font_list' = font_list
       /\ image' = image]_vars

\* a text whose width in BOLD is another, measured beside an image in use
C8_Witness ==
  /\ call.op = "get_text_len"
  /\ ~ret.panic
  /\ ret.val > 0
  /\ ret.val # SumWidths(call.text, BOLD, Len(call.text))
  /\ image = UsedImage

(***************************************************************************)
(* C9: the width layout returns is the sum, over the resolvable characters *)
(* in order, of ceil(advance / units_per_em * size) for the font and the   *)
(* FontSet size that resolved each one; each advance is rounded up before  *)
(* it is added, so the width of a ++ b is width(a) + width(b).             *)
(***************************************************************************)
C9_WidthIsSumOfCeilings ==
  (call.op = "layout" /\ ~ret.panic) =>
    /\ ret.val.width = SumWidths(call.text, call.style, Len(call.text))
    /\ \A k \in 0 .. Len(call.text) :
         ret.val.width =
           layout(chain, SubSeq(call.text, 1, k), call.style).val.width
           + layout(chain, SubSeq(call.text, k + 1, Len(call.text)), call.style).val.width

\* advance 600 of 1000 units at size 20 gives 12, and 550 of 1000 at size 10
\* gives 6 and not 5.5: two characters, resolved by two FontSets
C9_Witness ==
  /\ call.op = "layout"
  /\ ~ret.panic
  /\ Len(call.text) = 2
  /\ Len(ret.val.glyphs) = 2
  /\ ret.val.glyphs[1].font = "HackR" /\ ret.val.glyphs[1].size = 10
  /\ ret.val.glyphs[2].font = "FiraR" /\ ret.val.glyphs[2].size = 20
  /\ ret.val.width = 6 + 12

(***************************************************************************)
(* C10: layout emits the glyphs in the order of their characters; the      *)
(* glyph of a character is at x = (the advances of the glyphs resolved     *)
(* before it) + raster_rect.origin.x, the glyph's own advance not yet      *)
(* added, and at y = (the height of the chain) - raster_rect.size.height   *)
(* - raster_rect.origin.y, whichever FontSet resolved it.                  *)
(***************************************************************************)
C10_PositionsFollowCursor ==
  (call.op = "layout" /\ ~ret.panic) =>
    /\ Len(ret.val.glyphs) = Cardinality(ResolvableIdx(call.text, call.style))
    /\ \A k \in 1 .. Len(ret.val.glyphs) :
         LET g == ret.val.glyphs[k]
             i == KthResolvable(call.text, call.style, k)
             c == call.text[i]
             size == chain[Resolver(c, call.style)].size
         IN /\ g.font = ResolverFont(c, call.style)
            /\ g.id = FontTable[g.font].cmap[c]
            /\ g.size = size
            /\ g.raster_rect = Font_raster_bounds(g.font, g.id, size)
            /\ g.position.x = SumWidths(call.text, call.style, i - 1) + g.raster_rect.x
            /\ g.position.y = ChainHeight - g.raster_rect.h - g.raster_rect.y

\* a second glyph, resolved by a FontSet lower than the chain
C10_Witness ==
  /\ call.op = "layout"
  /\ ~ret.panic
  /\ Len(ret.val.glyphs) = 2
  /\ ret.val.glyphs[2].position.x > ret.val.glyphs[2].raster_rect.x
  /\ MemberHeight(chain[Resolver(call.text[2], call.style)]) < ChainHeight

(***************************************************************************)
(* What a drawing is, read off the tables                                  *)
(***************************************************************************)
\* the glyphs draw_text_mut draws
DrawnGlyphs == layout(chain, call.text, call.style).val.glyphs
\* a box of no area
ZeroArea(g) == g.raster_rect.w = 0 \/ g.raster_rect.h = 0
EmptyBox(g) == g.raster_rect.w = 0 /\ g.raster_rect.h = 0
\* round(descent / units_per_em * size), half away from zero, of the Regular font
\* of the first FontSet: descent is not positive
FirstOffset ==
  LET f == FontTable[chain[1].fonts[REGULAR]]
      scaled == -(f.descent * chain[1].size)
  IN -(CHOOSE m \in 0 .. (scaled \div f.units_per_em) + 1 :
         2 * scaled - f.units_per_em < 2 * m * f.units_per_em
         /\ 2 * m * f.units_per_em <= 2 * scaled + f.units_per_em)
\* the pixel that cell (dx, dy) of the mask of g is blended into
CellPixel(g, dx, dy) ==
  <<call.x + g.position.x + dx, call.y + g.position.y + dy + FirstOffset>>
\* the pixels of the image that differ from what the call found
Modified == {p \in Pixels : get_pixel(image, p) # get_pixel(pre_image, p)}

(***************************************************************************)
(* C4 as stated: draw never calls rasterize_glyph for a glyph whose raster *)
(* box has zero width or zero height.  It fails for a box with one side    *)
(* zero and the other not: the canvas size is then not (0, 0).             *)
(***************************************************************************)
C4_ZeroWidthOrHeight ==
  (call.op = "draw_text_mut" /\ LaysOut) =>
    \A k \in 1 .. Len(rasterized) : ZeroArea(DrawnGlyphs[k]) => ~rasterized[k]

(***************************************************************************)
(* C4, amended: draw skips rasterize_glyph exactly for the glyphs whose    *)
(* raster box has zero width and zero height; a glyph whose box has zero   *)
(* width or zero height changes no pixel, rasterized or not, and its       *)
(* advance is part of the width all the same.                              *)
(***************************************************************************)
C4_EmptyBoxNotRasterized ==
  (call.op = "draw_text_mut" /\ LaysOut) =>
    /\ \A k \in 1 .. Len(rasterized) : rasterized[k] = ~EmptyBox(DrawnGlyphs[k])
    /\ (\A k \in 1 .. Len(DrawnGlyphs) : ZeroArea(DrawnGlyphs[k])) =>
         /\ ~ret.panic
         /\ image = pre_image
         /\ Len(rasterized) = Len(DrawnGlyphs)
    /\ ~ret.panic => ret.val = SumWidths(call.text, call.style, Len(call.text))

\* a space, not rasterized, and a glyph of zero width, rasterized: both advance
C4_Witness ==
  /\ call.op = "draw_text_mut"
  /\ ~ret.panic
  /\ rasterized = <<FALSE, TRUE>>
  /\ EmptyBox(DrawnGlyphs[1])
  /\ DrawnGlyphs[2].raster_rect.w = 0 /\ DrawnGlyphs[2].raster_rect.h > 0
  /\ DrawnGlyphs[2].position.x > 0
  /\ ret.val > DrawnGlyphs[2].position.x
  /\ image = pre_image

(***************************************************************************)
(* C5: the frame of draw_text_mut.  A pixel differs from what the call     *)
(* found only if it is at (x + position.x + dx, y + position.y + dy +      *)
(* offset) for a laid-out glyph and a cell (dx, dy) of its raster box      *)
(* whose coverage byte is above 0, offset being the one value taken from   *)
(* the Regular font and the size of the first FontSet.                     *)
(***************************************************************************)
C5_FrameOfDraw ==
  call.op = "draw_text_mut" =>
    \A p \in Modified :
      /\ LaysOut
      /\ \E k \in 1 .. Len(DrawnGlyphs) :
           LET g == DrawnGlyphs[k] IN
           \E dx \in 0 .. g.raster_rect.w - 1, dy \in 0 .. g.raster_rect.h - 1 :
             /\ Font_rasterize_glyph(g.font, g.id, g.size, dx, dy) > 0
             /\ p = CellPixel(g, dx, dy)

\* a glyph resolved by the second FontSet, whose own offset is another, is drawn:
\* pixels change, and a cell of no coverage inside its box is left alone
C5_Witness ==
  /\ call.op = "draw_text_mut"
  /\ ~ret.panic
  /\ Len(chain) = 2
  /\ Modified # {}
  /\ \E k \in 1 .. Len(DrawnGlyphs) :
       LET g == DrawnGlyphs[k] IN
       /\ g.font = "FiraR"
       /\ BaselineOffset(<<chain[2]>>).val # FirstOffset
       /\ \E dx \in 0 .. g.raster_rect.w - 1, dy \in 0 .. g.raster_rect.h - 1 :
            /\ Font_rasterize_glyph(g.font, g.id, g.size, dx, dy) = 0
            /\ CellPixel(g, dx, dy) \in Pixels \ Modified

(***************************************************************************)
(* C6 as stated: for any chain, drawing the empty string returns width 0   *)
(* and changes no pixel.  It fails on the empty chain, where draw_text_mut *)
(* panics on self.0[0] and returns nothing.                                *)
(***************************************************************************)
C6_AnyChain ==
  (call.op = "draw_text_mut" /\ call.text = <<>>) =>
    (~ret.panic /\ ret.val = 0 /\ image = pre_image)

(***************************************************************************)
(* C6, amended: on a chain that is not empty and whose FontSets all have a *)
(* Regular font, drawing the empty string returns width 0 and changes no   *)
(* pixel; on any other chain the call panics, and changes no pixel either. *)
(***************************************************************************)
C6_EmptyStringNoOp ==
  (call.op = "draw_text_mut" /\ call.text = <<>>) =>
    /\ image = pre_image
    /\ rasterized = <<>>
    /\ IF LaysOut THEN ~ret.panic /\ ret.val = 0 ELSE ret.panic

\* the empty string drawn onto an image in use, away from the origin
C6_Witness ==
  /\ call.op = "draw_text_mut"
  /\ call.text = <<>>
  /\ ~ret.panic
  /\ ret.val = 0
  /\ pre_image = UsedImage
  /\ call.x > 0
  /\ Len(chain) = 2

=============================================================================
